---------------------------- MODULE Spec2Model ----------------------------
(* Model of dev/start_services.py: the dependency-ordered start-up script. *)
(* The control flow of main, start_spring_boot_service, wait_for_service,  *)
(* check_http_health and run_command is followed statement by statement;   *)
(* the outcomes of external commands, of HTTP exchanges and the arrival of *)
(* a KeyboardInterrupt are the environment's choices.                      *)
(* Ports and paths only select which endpoint / directory the environment  *)
(* answers for; the answers themselves are the environment's choice, so    *)
(* they are not part of the state.                                         *)
EXTENDS Naturals, Integers, Sequences, FiniteSets, TLC

(***************************************************************************)
(* Bounds of the model                                                     *)
(***************************************************************************)
NumServices == 3
MaxEdges == 2
MaxBodyLen == 3
MaxRetriesArg == 3
MaxDelayArg == 2

(***************************************************************************)
(* Program constants                                                       *)
(***************************************************************************)
DefaultMaxRetries == 30
DefaultDelay == 2
HTTP_OK == 200

VARIABLES
  entry,             \* the function this run executes: "main", "wait_for_service" or "check_http_health"
  pc,                \* control position
  services,          \* main: the service list (name, depends_on), in declared order
  started_services,  \* main: started_services
  cur,               \* main: index in services of the service being launched (0: none)
  i,                 \* wait_for_service: loop index
  max_retries,       \* wait_for_service: parameter
  delay,             \* wait_for_service: parameter
  conn,              \* check_http_health: "none", "open" or "closed"
  response,          \* check_http_health: what the exchange produced (a local of the function)
  hc_result,         \* check_http_health: value it returns ("unset" until computed)
  infra_ok,          \* main: value of run_command(docker-compose ...)
  build_ok,          \* start_spring_boot_service: value of run_command(build_cmd)
  spawn_ok,          \* start_spring_boot_service: value of run_command(cmd, shell=True)
  wait_result,       \* value returned by wait_for_service
  main_result,       \* value returned by main
  exit_code,         \* <<>> while running, <<c>> once the process exited with code c
  outcome,           \* how the run ended
  raised,            \* exception propagating out of the entry function ("none" if none)
  interrupted_at,    \* history: the control position at which the last KeyboardInterrupt arrived
  infraCount,        \* history: executions of the docker-compose command
  launchCount,       \* history: calls of start_spring_boot_service, per service index
  buildCount,        \* history: executions of the build command, per service index
  spawnCount,        \* history: executions of the terminal command, per service index
  terminals,         \* names of the services whose terminal window was spawned and is left running
  healthy,           \* history: names of the services for which a health check returned True
  checks,            \* history: health checks made by the current wait_for_service call
  failed_checks,     \* history: those of them that returned False
  slept,             \* history: total time slept by the current wait_for_service call
  sleep_lens         \* history: the lengths of the sleeps of the current wait_for_service call

vars == <<entry, pc, services, started_services, cur, i, max_retries, delay, conn,
          response, hc_result, infra_ok, build_ok, spawn_ok, wait_result, main_result,
          exit_code, outcome, raised, interrupted_at, infraCount, launchCount, buildCount,
          spawnCount, terminals, healthy, checks, failed_checks, slept,
          sleep_lens>>

(***************************************************************************)
(* The service list                                                        *)
(***************************************************************************)
NamePool == <<"A", "B", "C", "D", "E", "F">>
MissingName == "X"

BuiltinServices ==
  << [name |-> "config-server",        depends_on |-> {}],
     [name |-> "eureka-server",        depends_on |-> {"config-server"}],
     [name |-> "customer-service",     depends_on |-> {"eureka-server"}],
     [name |-> "notification-service", depends_on |-> {"eureka-server"}],
     [name |-> "gateway-server",       depends_on |-> {"customer-service", "notification-service"}] >>

ListedNames(n) == {NamePool[k] : k \in 1..n}

\* Every dependency graph over the first n names of the pool with at most
\* MaxEdges dependency edges; a dependency may name a service that is not listed.
EdgeSets(n) ==
  {es \in SUBSET ((1..n) \X (ListedNames(n) \cup {MissingName})) : Cardinality(es) <= MaxEdges}

GraphOf(n, es) ==
  [k \in 1..n |-> [name |-> NamePool[k], depends_on |-> {e[2] : e \in {f \in es : f[1] = k}}]]

\* The built-in list of lines 87-118, and every list of at most NumServices services.
ServiceLists ==
  {BuiltinServices}
    \cup UNION {{GraphOf(n, es) : es \in EdgeSets(n)} : n \in 0..NumServices}

Names(svcs) == {svcs[k].name : k \in 1..Len(svcs)}


(***************************************************************************)
(* check_http_health: the value of line 35 / line 38                       *)
(***************************************************************************)
Bytes == {"U", "P", "D"}
UP == <<"U", "P">>

RECURSIVE BodiesOfLen(_)
BodiesOfLen(n) ==
  IF n = 0 THEN {<<>>}
  ELSE {Append(b, c) : b \in BodiesOfLen(n - 1), c \in Bytes}

RECURSIVE BodiesUpTo(_)
BodiesUpTo(n) == IF n = 0 THEN BodiesOfLen(0) ELSE BodiesOfLen(n) \cup BodiesUpTo(n - 1)

NoResponse == [kind |-> "none", status |-> 0, body |-> <<>>]
HttpResponse(st, b) == [kind |-> "http", status |-> st, body |-> b]
\* conn.request / conn.getresponse / response.read raising an Exception
ExchangeError(k) == [kind |-> k, status |-> 0, body |-> <<>>]
ErrorKinds == {"refused", "timeout"}
Statuses == {HTTP_OK, 500, 503}

\* b"UP" in response.read(): pat occurs in body as a contiguous slice
Contains(body, pat) ==
  \E k \in 0..Len(body) :
     /\ k + Len(pat) <= Len(body)
     /\ \A j \in 1..Len(pat) : body[k + j] = pat[j]

\* Mutant of line 35: the body is not looked at
HealthValue_StatusOnly(r) == r.kind = "http" /\ r.status = HTTP_OK

\* The value check_http_health is about to return for what the exchange produced.
HealthValue(r) ==
  IF r.kind = "http"
    THEN r.status = HTTP_OK /\ Contains(r.body, UP)
    ELSE FALSE

PyBool(b) == IF b THEN "True" ELSE "False"

\* The exchanges explored when a whole check is the entry point ...
AllResponses ==
  {HttpResponse(st, b) : st \in Statuses, b \in BodiesUpTo(MaxBodyLen)}
    \cup {ExchangeError(k) : k \in ErrorKinds}
\* ... and the exchanges explored inside the polling loops: one per path of lines 33-38.
LoopResponses ==
  { HttpResponse(HTTP_OK, UP), HttpResponse(HTTP_OK, <<"D">>),
    HttpResponse(503, UP), ExchangeError("refused"), ExchangeError("timeout") }

ResponsesFor(e) == IF e = "check_http_health" THEN AllResponses ELSE LoopResponses

(***************************************************************************)
(* main: the scan of lines 135-144                                         *)
(***************************************************************************)
\* Mutants of line 143: the dependency test dropped, and any() for all()
AllDepsStarted_Ignored(svc, started) == TRUE
AllDepsStarted_Any(svc, started) ==
  svc.depends_on = {} \/ \E dep \in svc.depends_on : dep \in started

\* line 143: all(dep in started_services for dep in service["depends_on"])
AllDepsStarted(svc, started) == \A dep \in svc.depends_on : dep \in started

\* Mutant of lines 139-140: a started service is not skipped
RECURSIVE ScanFrom_NoStartedSkip(_, _, _)
ScanFrom_NoStartedSkip(svcs, started, k) ==
  IF k > Len(svcs) THEN 0
  ELSE IF ~(\A dep \in svcs[k].depends_on : dep \in started)
    THEN ScanFrom_NoStartedSkip(svcs, started, k + 1)
  ELSE k

\* Mutant of lines 143-144: the scan ends at the first service with a
\* dependency that is not started (break for continue)
RECURSIVE ScanFrom_StopsAtBlocked(_, _, _)
ScanFrom_StopsAtBlocked(svcs, started, k) ==
  IF k > Len(svcs) THEN 0
  ELSE IF svcs[k].name \in started THEN ScanFrom_StopsAtBlocked(svcs, started, k + 1)
  ELSE IF ~AllDepsStarted(svcs[k], started) THEN 0
  ELSE k

\* The for loop of lines 135-144 from index k on: the index of the service it
\* launches, 0 when the loop runs to its else branch.
RECURSIVE ScanFrom(_, _, _)
ScanFrom(svcs, started, k) ==
  IF k > Len(svcs) THEN 0
  ELSE IF svcs[k].name \in started THEN ScanFrom(svcs, started, k + 1)
  ELSE IF ~AllDepsStarted(svcs[k], started) THEN ScanFrom(svcs, started, k + 1)
  ELSE k

\* Mutant of lines 134-135, 156: after a launch the scan goes on behind the
\* service just launched instead of restarting at the top of the list
FirstEligible_NoRestart(svcs, started) ==
  IF ScanFrom(svcs, started, cur + 1) # 0
    THEN ScanFrom(svcs, started, cur + 1)
    ELSE ScanFrom(svcs, started, 1)

FirstEligible(svcs, started) == ScanFrom(svcs, started, 1)

service_name == IF cur = 0 THEN "" ELSE services[cur].name

ZeroCounts(svcs) == [k \in 1..Len(svcs) |-> 0]
Bump(f, k) == [f EXCEPT ![k] = @ + 1]


(***************************************************************************)
(* run_command (lines 8-26): the environment decides how subprocess.run    *)
(* ends: exit code 0, CalledProcessError (non-zero exit), or an exception  *)
(* that is no CalledProcessError (the command cannot be executed), which   *)
(* run_command does not catch.                                             *)
(***************************************************************************)
RunOutcomes == {"ok", "failed", "oserror"}
\* The value run_command returns when it returns
run_command(o) == PyBool(o = "ok")

\* Mutant of lines 174-177: one handler for every exception
HandlerPc_CatchAll(exc) == IF entry = "main" THEN "report_exc" ELSE "raised"

\* Where an exception leaving the entry function is handled: the handlers of
\* lines 174-179 for main, the (unmodelled) caller otherwise.
HandlerPc(exc) ==
  IF entry = "main"
    THEN (IF exc = "KeyboardInterrupt" THEN "report_intr" ELSE "report_exc")
    ELSE "raised"

(***************************************************************************)
(* Initial states                                                          *)
(***************************************************************************)
InitCommon ==
  /\ started_services = {}
  /\ cur = 0
  /\ i = 0
  /\ conn = "none"
  /\ response = NoResponse
  /\ hc_result = "unset"
  /\ infra_ok = "unset"
  /\ build_ok = "unset"
  /\ spawn_ok = "unset"
  /\ wait_result = "unset"
  /\ main_result = "unset"
  /\ exit_code = <<>>
  /\ outcome = "running"
  /\ raised = "none"
  /\ interrupted_at = "none"
  /\ infraCount = 0
  /\ launchCount = ZeroCounts(services)
  /\ buildCount = ZeroCounts(services)
  /\ spawnCount = ZeroCounts(services)
  /\ terminals = {}
  /\ healthy = {}
  /\ checks = 0
  /\ failed_checks = 0
  /\ slept = 0
  /\ sleep_lens = {}

\* The script is run: main is about to start (line 171).
Init ==
  /\ entry = "main"
  /\ pc = "main_infra"
  /\ services \in ServiceLists
  /\ max_retries = DefaultMaxRetries
  /\ delay = DefaultDelay
  /\ InitCommon

\* wait_for_service is called with some retry budget and some delay.
WaiterInit ==
  /\ entry = "wait_for_service"
  /\ pc = "wait_call"
  /\ services = <<>>
  /\ max_retries \in (0..MaxRetriesArg) \cup {DefaultMaxRetries}
  /\ delay \in (0..MaxDelayArg) \cup {DefaultDelay}
  /\ InitCommon

\* check_http_health is called.
HealthInit ==
  /\ entry = "check_http_health"
  /\ pc = "hc_call"
  /\ services = <<>>
  /\ max_retries = DefaultMaxRetries
  /\ delay = DefaultDelay
  /\ InitCommon

(***************************************************************************)
(* main (lines 80-167)                                                     *)
(***************************************************************************)
\* Mutant of lines 123-125: the value of the docker-compose run_command is not tested
InfraUp_IgnoresFailure ==
  /\ pc = "main_infra"
  /\ \E o \in RunOutcomes :
       /\ infraCount' = infraCount + 1
       /\ IF o = "oserror"
            THEN /\ pc' = HandlerPc("OSError")
                 /\ raised' = "OSError"
                 /\ outcome' = "error"
                 /\ UNCHANGED <<main_result, infra_ok>>
            ELSE /\ infra_ok' = run_command(o)
                 /\ raised' = raised
                 /\ pc' = "main_warmup"
                 /\ UNCHANGED <<outcome, main_result>>
  /\ UNCHANGED <<interrupted_at, entry, services, started_services, cur, i, max_retries, delay, conn,
                 response, hc_result, build_ok, spawn_ok, wait_result, exit_code,
                 launchCount, buildCount, spawnCount, terminals, healthy, checks, failed_checks,
                 slept, sleep_lens>>

\* lines 123-125: the docker-compose command
InfraUp ==
  /\ pc = "main_infra"
  /\ \E o \in RunOutcomes :
       /\ infraCount' = infraCount + 1
       /\ IF o = "oserror"
            THEN /\ pc' = HandlerPc("OSError")
                 /\ raised' = "OSError"
                 /\ outcome' = "error"
                 /\ UNCHANGED <<main_result, infra_ok>>
            ELSE /\ infra_ok' = run_command(o)
                 /\ raised' = raised
                 /\ IF infra_ok' = "True"
                      THEN /\ pc' = "main_warmup"
                           /\ UNCHANGED <<outcome, main_result>>
                      ELSE /\ pc' = "report_fail"
                           /\ main_result' = "False"
                           /\ outcome' = "infra_failed"
  /\ UNCHANGED <<interrupted_at, entry, services, started_services, cur, i, max_retries, delay, conn,
                 response, hc_result, build_ok, spawn_ok, wait_result, exit_code,
                 launchCount, buildCount, spawnCount, terminals, healthy, checks, failed_checks,
                 slept, sleep_lens>>

\* lines 128-132: time.sleep(10); started_services = set()
Warmup ==
  /\ pc = "main_warmup"
  /\ pc' = "main_loop"
  /\ started_services' = {}
  /\ UNCHANGED <<infra_ok, interrupted_at, entry, services, cur, i, max_retries, delay, conn, response,
                 hc_result, build_ok, spawn_ok, wait_result, main_result, exit_code,
                 outcome, raised, infraCount, launchCount, buildCount, spawnCount,
                 terminals, healthy, checks, failed_checks, slept, sleep_lens>>

\* lines 134-147: the while test holds and the for loop reaches a service to
\* launch: start_spring_boot_service is called for it.
MainLaunch ==
  /\ pc = "main_loop"
  /\ Cardinality(started_services) < Len(services)
  /\ FirstEligible(services, started_services) # 0
  /\ cur' = FirstEligible(services, started_services)
  /\ launchCount' = Bump(launchCount, cur')
  /\ pc' = "build"
  /\ build_ok' = "unset"
  /\ spawn_ok' = "unset"
  /\ wait_result' = "unset"
  /\ UNCHANGED <<infra_ok, interrupted_at, entry, services, started_services, i, max_retries, delay, conn,
                 response, hc_result, main_result, exit_code, outcome, raised,
                 infraCount, buildCount, spawnCount, terminals, healthy, checks, failed_checks,
                 slept, sleep_lens>>

\* lines 134-144, 157-159: the for loop ends without a break
MainStall ==
  /\ pc = "main_loop"
  /\ Cardinality(started_services) < Len(services)
  /\ FirstEligible(services, started_services) = 0
  /\ pc' = "report_fail"
  /\ main_result' = "False"
  /\ outcome' = "stall"
  /\ UNCHANGED <<infra_ok, interrupted_at, entry, services, started_services, cur, i, max_retries, delay, conn,
                 response, hc_result, build_ok, spawn_ok, wait_result, exit_code,
                 raised, infraCount, launchCount, buildCount, spawnCount, terminals,
                 healthy, checks, failed_checks, slept, sleep_lens>>

\* lines 134, 161-167, 171: the while test fails, main returns True and the
\* script runs off its end
MainSuccess ==
  /\ pc = "main_loop"
  /\ ~(Cardinality(started_services) < Len(services))
  /\ main_result' = "True"
  /\ outcome' = "success"
  /\ pc' = "exit"
  /\ exit_code' = <<0>>
  /\ UNCHANGED <<infra_ok, interrupted_at, entry, services, started_services, cur, i, max_retries, delay, conn,
                 response, hc_result, build_ok, spawn_ok, wait_result, raised,
                 infraCount, launchCount, buildCount, spawnCount, terminals, healthy,
                 checks, failed_checks, slept, sleep_lens>>

\* Mutant of lines 151-153: the failure is reported but main does not return
MainAfterLaunch_NoReturn(r) ==
  IF r = "True"
    THEN /\ started_services' = started_services \cup {services[cur].name}
         /\ pc' = "main_loop"
         /\ UNCHANGED <<main_result, outcome>>
    ELSE /\ pc' = "main_loop"
         /\ main_result' = main_result
         /\ outcome' = "launch_failed"
         /\ started_services' = started_services \cup {services[cur].name}

\* Mutant of lines 151-153: a failed launch discards the record of the
\* services started so far
MainAfterLaunch_ClearsOnFailure(r) ==
  IF r = "True"
    THEN /\ started_services' = started_services \cup {service_name}
         /\ pc' = "main_loop"
         /\ UNCHANGED <<main_result, outcome>>
    ELSE /\ pc' = "report_fail"
         /\ main_result' = "False"
         /\ outcome' = "launch_failed"
         /\ started_services' = {}

\* Mutant of line 155: a service that started is not recorded
MainAfterLaunch_ForgetsToAdd(r) ==
  IF r = "True"
    THEN /\ started_services' = started_services
         /\ pc' = "main_loop"
         /\ UNCHANGED <<main_result, outcome>>
    ELSE /\ pc' = "report_fail"
         /\ main_result' = "False"
         /\ outcome' = "launch_failed"
         /\ started_services' = started_services

\* Mutant of lines 151-153: a failed launch falls through to the report of
\* lines 157-159
MainAfterLaunch_FailureAsStall(r) ==
  IF r = "True"
    THEN /\ started_services' = started_services \cup {service_name}
         /\ pc' = "main_loop"
         /\ UNCHANGED <<main_result, outcome>>
    ELSE /\ pc' = "report_fail"
         /\ main_result' = "False"
         /\ outcome' = "stall"
         /\ started_services' = started_services

\* lines 147-156: start_spring_boot_service returned r to main
MainAfterLaunch(r) ==
  IF r = "True"
    THEN /\ started_services' = started_services \cup {service_name}
         /\ pc' = "main_loop"
         /\ UNCHANGED <<main_result, outcome>>
    ELSE /\ pc' = "report_fail"
         /\ main_result' = "False"
         /\ outcome' = "launch_failed"
         /\ started_services' = started_services


(***************************************************************************)
(* start_spring_boot_service (lines 55-78)                                 *)
(***************************************************************************)
\* Mutant of lines 61-63: the value of run_command(build_cmd) is not tested
Build_IgnoresFailure ==
  /\ pc = "build"
  /\ \E o \in RunOutcomes :
       /\ buildCount' = Bump(buildCount, cur)
       /\ IF o = "oserror"
            THEN /\ pc' = HandlerPc("OSError")
                 /\ raised' = "OSError"
                 /\ outcome' = "error"
                 /\ UNCHANGED <<build_ok, main_result, started_services>>
            ELSE /\ build_ok' = run_command(o)
                 /\ raised' = raised
                 /\ pc' = "spawn"
                 /\ UNCHANGED <<outcome, main_result, started_services>>
  /\ UNCHANGED <<infra_ok, interrupted_at, entry, services, cur, i, max_retries, delay, conn, response,
                 hc_result, spawn_ok, wait_result, exit_code, infraCount,
                 launchCount, spawnCount, terminals, healthy, checks, failed_checks, slept,
                 sleep_lens>>

\* Mutant of lines 61-63: a failed build is run a second time
Build_RetryOnFailure ==
  /\ pc = "build"
  /\ \E o \in RunOutcomes :
       /\ buildCount' = Bump(buildCount, cur)
       /\ IF o = "oserror"
            THEN /\ pc' = HandlerPc("OSError")
                 /\ raised' = "OSError"
                 /\ outcome' = "error"
                 /\ UNCHANGED <<build_ok, main_result, started_services>>
            ELSE /\ build_ok' = run_command(o)
                 /\ raised' = raised
                 /\ IF build_ok' = "True"
                      THEN /\ pc' = "spawn"
                           /\ UNCHANGED <<outcome, main_result, started_services>>
                      ELSE IF buildCount[cur] = 0
                      THEN /\ pc' = "build"
                           /\ UNCHANGED <<outcome, main_result, started_services>>
                      ELSE MainAfterLaunch("False")
  /\ UNCHANGED <<infra_ok, interrupted_at, entry, services, cur, i, max_retries, delay, conn, response,
                 hc_result, spawn_ok, wait_result, exit_code, infraCount,
                 launchCount, spawnCount, terminals, healthy, checks, failed_checks, slept,
                 sleep_lens>>

\* lines 60-63: the build command
Build ==
  /\ pc = "build"
  /\ \E o \in RunOutcomes :
       /\ buildCount' = Bump(buildCount, cur)
       /\ IF o = "oserror"
            THEN /\ pc' = HandlerPc("OSError")
                 /\ raised' = "OSError"
                 /\ outcome' = "error"
                 /\ UNCHANGED <<build_ok, main_result, started_services>>
            ELSE /\ build_ok' = run_command(o)
                 /\ raised' = raised
                 /\ IF build_ok' = "True"
                      THEN /\ pc' = "spawn"
                           /\ UNCHANGED <<outcome, main_result, started_services>>
                      ELSE MainAfterLaunch("False")
  /\ UNCHANGED <<infra_ok, interrupted_at, entry, services, cur, i, max_retries, delay, conn, response,
                 hc_result, spawn_ok, wait_result, exit_code, infraCount,
                 launchCount, spawnCount, terminals, healthy, checks, failed_checks, slept,
                 sleep_lens>>

\* Mutant of lines 70-72: the value of run_command(cmd, shell=True) is not tested
Spawn_FireAndForget ==
  /\ pc = "spawn"
  /\ \E o \in RunOutcomes :
       /\ spawnCount' = Bump(spawnCount, cur)
       /\ IF o = "oserror"
            THEN /\ pc' = HandlerPc("OSError")
                 /\ raised' = "OSError"
                 /\ outcome' = "error"
                 /\ UNCHANGED <<spawn_ok, terminals>>
            ELSE /\ spawn_ok' = run_command(o)
                 /\ pc' = "grace"
                 /\ terminals' = terminals \cup {service_name}
                 /\ UNCHANGED <<raised, outcome>>
  /\ UNCHANGED <<infra_ok, interrupted_at, entry, services, started_services, cur, i, max_retries, delay, conn,
                 response, hc_result, build_ok, wait_result, main_result, exit_code,
                 infraCount, launchCount, buildCount, healthy, checks, failed_checks,
                 slept, sleep_lens>>

\* lines 66-72: the terminal command, run through run_command like the build
Spawn ==
  /\ pc = "spawn"
  /\ \E o \in RunOutcomes :
       /\ spawnCount' = Bump(spawnCount, cur)
       /\ IF o = "oserror"
            THEN /\ pc' = HandlerPc("OSError")
                 /\ raised' = "OSError"
                 /\ outcome' = "error"
                 /\ UNCHANGED <<spawn_ok, main_result, started_services, terminals>>
            ELSE /\ spawn_ok' = run_command(o)
                 /\ raised' = raised
                 /\ IF spawn_ok' = "True"
                      THEN /\ pc' = "grace"
                           /\ terminals' = terminals \cup {service_name}
                           /\ UNCHANGED <<outcome, main_result, started_services>>
                      ELSE /\ MainAfterLaunch("False")
                           /\ terminals' = terminals
  /\ UNCHANGED <<infra_ok, interrupted_at, entry, services, cur, i, max_retries, delay, conn, response,
                 hc_result, build_ok, wait_result, exit_code, infraCount,
                 launchCount, buildCount, healthy, checks, failed_checks, slept, sleep_lens>>

\* lines 75-78: time.sleep(5), then wait_for_service(service_name, port) is
\* called with the default max_retries and delay
Grace ==
  /\ pc = "grace"
  /\ pc' = "wait_call"
  /\ max_retries' = DefaultMaxRetries
  /\ delay' = DefaultDelay
  /\ UNCHANGED <<infra_ok, interrupted_at, entry, services, started_services, cur, i, conn, response,
                 hc_result, build_ok, spawn_ok, wait_result, main_result, exit_code,
                 outcome, raised, infraCount, launchCount, buildCount, spawnCount,
                 terminals, healthy, checks, failed_checks, slept, sleep_lens>>

(***************************************************************************)
(* wait_for_service (lines 43-53)                                          *)
(***************************************************************************)
\* wait_for_service returns r: to its caller when it is the entry point, else
\* through line 78 to main
WaitReturns(r) ==
  /\ wait_result' = r
  /\ IF entry = "wait_for_service"
       THEN /\ pc' = "done"
            /\ UNCHANGED <<started_services, main_result, outcome>>
       ELSE MainAfterLaunch(r)

\* Mutant of line 46: one iteration too many
WaitLoop_OffByOne(k) ==
  IF k <= max_retries
    THEN /\ pc' = "hc_call"
         /\ UNCHANGED <<wait_result, started_services, main_result, outcome>>
    ELSE WaitReturns("False")

\* line 46, the loop test for index k: another health check, or lines 52-53
WaitLoop(k) ==
  IF k < max_retries
    THEN /\ pc' = "hc_call"
         /\ UNCHANGED <<wait_result, started_services, main_result, outcome>>
    ELSE WaitReturns("False")

\* lines 45-46: entry of wait_for_service and first loop test
WaitEnter ==
  /\ pc = "wait_call"
  /\ i' = 0
  /\ checks' = 0
  /\ failed_checks' = 0
  /\ slept' = 0
  /\ sleep_lens' = {}
  /\ WaitLoop(0)
  /\ UNCHANGED <<infra_ok, interrupted_at, entry, services, cur, max_retries, delay, conn, response,
                 hc_result, build_ok, spawn_ok, exit_code, raised, infraCount,
                 launchCount, buildCount, spawnCount, terminals, healthy>>

\* Mutant of line 50: the sleep grows with the attempt number
WaitSleep_Backoff ==
  /\ pc = "wait_sleep"
  /\ slept' = slept + delay * (i + 1)
  /\ sleep_lens' = sleep_lens \cup {delay * (i + 1)}
  /\ i' = i + 1
  /\ WaitLoop(i + 1)
  /\ UNCHANGED <<infra_ok, interrupted_at, entry, services, cur, max_retries, delay, conn, response,
                 hc_result, build_ok, spawn_ok, exit_code, raised, infraCount,
                 launchCount, buildCount, spawnCount, terminals, healthy, checks,
                 failed_checks>>

\* lines 50-51, 46: time.sleep(delay), next loop test
WaitSleep ==
  /\ pc = "wait_sleep"
  /\ slept' = slept + delay
  /\ sleep_lens' = sleep_lens \cup {delay}
  /\ i' = i + 1
  /\ WaitLoop(i + 1)
  /\ UNCHANGED <<infra_ok, interrupted_at, entry, services, cur, max_retries, delay, conn, response,
                 hc_result, build_ok, spawn_ok, exit_code, raised, infraCount,
                 launchCount, buildCount, spawnCount, terminals, healthy, checks, failed_checks>>

(***************************************************************************)
(* check_http_health (lines 28-41)                                         *)
(***************************************************************************)
\* lines 30-32: the connection object is created
HcOpen ==
  /\ pc = "hc_call"
  /\ conn' = "open"
  /\ response' = NoResponse
  /\ hc_result' = "unset"
  /\ checks' = checks + 1
  /\ failed_checks' = failed_checks
  /\ pc' = "hc"
  /\ UNCHANGED <<infra_ok, interrupted_at, entry, services, started_services, cur, i, max_retries, delay,
                 build_ok, spawn_ok, wait_result, main_result, exit_code, outcome,
                 raised, infraCount, launchCount, buildCount, spawnCount, terminals,
                 healthy, slept, sleep_lens>>

\* Mutant of lines 36-38: no except clause, an Exception of the exchange leaves
\* the function
HcExchange_NoExcept ==
  /\ pc = "hc"
  /\ \E r \in ResponsesFor(entry) :
       IF r.kind = "http"
         THEN /\ response' = r
              /\ hc_result' = PyBool(HealthValue(r))
              /\ pc' = "hc_ret"
              /\ UNCHANGED <<raised, outcome, conn>>
         ELSE /\ response' = NoResponse
              /\ hc_result' = hc_result
              /\ pc' = HandlerPc("ConnectionError")
              /\ raised' = "ConnectionError"
              /\ outcome' = "error"
              /\ conn' = "closed"
  /\ UNCHANGED <<infra_ok, interrupted_at, entry, services, started_services, cur, i, max_retries, delay,
                 build_ok, spawn_ok, wait_result, main_result, exit_code,
                 infraCount, launchCount, buildCount, spawnCount, terminals,
                 healthy, checks, failed_checks, slept, sleep_lens>>

\* lines 33-38: the exchange ends with a response or with an Exception, and the
\* value to return is computed
HcExchange ==
  /\ pc = "hc"
  /\ \E r \in ResponsesFor(entry) :
       /\ response' = r
       /\ hc_result' = PyBool(HealthValue(r))
  /\ pc' = "hc_ret"
  /\ UNCHANGED <<infra_ok, interrupted_at, entry, services, started_services, cur, i, max_retries, delay, conn,
                 build_ok, spawn_ok, wait_result, main_result, exit_code, outcome,
                 raised, infraCount, launchCount, buildCount, spawnCount, terminals,
                 healthy, checks, failed_checks, slept, sleep_lens>>

\* Mutant of lines 39-41: the connection is closed on the healthy path only
HcReturn_CloseOnSuccessOnly ==
  /\ pc = "hc_ret"
  /\ conn' = IF hc_result = "True" THEN "closed" ELSE conn
  /\ response' = NoResponse
  /\ failed_checks' = IF hc_result = "False" THEN failed_checks + 1 ELSE failed_checks
  /\ IF entry = "check_http_health"
       THEN /\ pc' = "done"
            /\ UNCHANGED <<wait_result, started_services, main_result, outcome, healthy>>
       ELSE IF hc_result = "True"
       THEN /\ healthy' = IF cur = 0 THEN healthy ELSE healthy \cup {service_name}
            /\ WaitReturns("True")
       ELSE /\ pc' = "wait_sleep"
            /\ UNCHANGED <<wait_result, started_services, main_result, outcome, healthy>>
  /\ UNCHANGED <<infra_ok, interrupted_at, entry, services, cur, i, max_retries, delay, hc_result, build_ok,
                 spawn_ok, exit_code, raised, infraCount, launchCount, buildCount,
                 spawnCount, terminals, checks, slept, sleep_lens>>

\* lines 39-41: the finally clause, then the return; in wait_for_service the
\* value is tested at once (lines 47-49)
HcReturn ==
  /\ pc = "hc_ret"
  /\ conn' = "closed"
  /\ response' = NoResponse
  /\ failed_checks' = IF hc_result = "False" THEN failed_checks + 1 ELSE failed_checks
  /\ IF entry = "check_http_health"
       THEN /\ pc' = "done"
            /\ UNCHANGED <<wait_result, started_services, main_result, outcome, healthy>>
       ELSE IF hc_result = "True"
       THEN /\ healthy' = IF cur = 0 THEN healthy ELSE healthy \cup {service_name}
            /\ WaitReturns("True")
       ELSE /\ pc' = "wait_sleep"
            /\ UNCHANGED <<wait_result, started_services, main_result, outcome, healthy>>
  /\ UNCHANGED <<infra_ok, interrupted_at, entry, services, cur, i, max_retries, delay, hc_result, build_ok,
                 spawn_ok, exit_code, raised, infraCount, launchCount, buildCount,
                 spawnCount, terminals, checks, slept, sleep_lens>>

(***************************************************************************)
(* KeyboardInterrupt and the top level (lines 169-179)                     *)
(***************************************************************************)
\* The control positions inside the try block of lines 170-173
TryPcs ==
  {"main_infra", "main_warmup", "main_loop", "build", "spawn", "grace",
   "wait_call", "hc_call", "hc", "hc_ret", "wait_sleep", "report_fail"}
\* The control positions inside the handlers of lines 174-179
HandlerPcs == {"report_intr", "report_exc"}

\* A KeyboardInterrupt arrives while the entry function (or line 172) runs. No
\* except clause below the top level catches it (line 22 names
\* CalledProcessError, line 36 names Exception); the finally clause of lines
\* 39-41 closes the connection on the way out, and the frames of
\* wait_for_service and check_http_health are unwound with their locals.
Interrupt ==
  /\ pc \in TryPcs
  /\ pc' = HandlerPc("KeyboardInterrupt")
  /\ interrupted_at' = pc
  /\ raised' = "KeyboardInterrupt"
  /\ outcome' = "interrupted"
  /\ conn' = IF conn = "open" THEN "closed" ELSE conn
  /\ response' = NoResponse
  /\ hc_result' = "unset"
  /\ i' = 0
  /\ checks' = 0
  /\ failed_checks' = 0
  /\ slept' = 0
  /\ sleep_lens' = {}
  /\ UNCHANGED <<infra_ok, entry, services, started_services, cur, max_retries, delay,
                 build_ok, spawn_ok, wait_result, main_result, exit_code,
                 infraCount, launchCount, buildCount, spawnCount, terminals, healthy>>

\* lines 172-173: main returned False
ReportFail ==
  /\ pc = "report_fail"
  /\ pc' = "exit"
  /\ exit_code' = <<1>>
  /\ UNCHANGED <<infra_ok, interrupted_at, entry, services, started_services, cur, i, max_retries, delay, conn,
                 response, hc_result, build_ok, spawn_ok, wait_result, main_result,
                 outcome, raised, infraCount, launchCount, buildCount, spawnCount,
                 terminals, healthy, checks, failed_checks, slept, sleep_lens>>

\* lines 174-176: except KeyboardInterrupt
ReportInterrupt ==
  /\ pc = "report_intr"
  /\ pc' = "exit"
  /\ exit_code' = <<0>>
  /\ UNCHANGED <<infra_ok, interrupted_at, entry, services, started_services, cur, i, max_retries, delay, conn,
                 response, hc_result, build_ok, spawn_ok, wait_result, main_result,
                 outcome, raised, infraCount, launchCount, buildCount, spawnCount,
                 terminals, healthy, checks, failed_checks, slept, sleep_lens>>

\* lines 177-179: except Exception
ReportError ==
  /\ pc = "report_exc"
  /\ pc' = "exit"
  /\ exit_code' = <<1>>
  /\ UNCHANGED <<infra_ok, interrupted_at, entry, services, started_services, cur, i, max_retries, delay, conn,
                 response, hc_result, build_ok, spawn_ok, wait_result, main_result,
                 outcome, raised, infraCount, launchCount, buildCount, spawnCount,
                 terminals, healthy, checks, failed_checks, slept, sleep_lens>>

\* The exit status of an interpreter ended by a KeyboardInterrupt nobody
\* catches: 1, or death by SIGINT (130 as the shell reports it), by version.
UncaughtInterruptCodes == {1, 130}

\* A KeyboardInterrupt arrives inside a handler of lines 174-179: an except
\* clause does not cover its sibling handlers, so nothing catches it.
InterruptInHandler ==
  /\ pc \in HandlerPcs
  /\ pc' = "exit"
  /\ \E c \in UncaughtInterruptCodes : exit_code' = <<c>>
  /\ interrupted_at' = pc
  /\ raised' = "KeyboardInterrupt"
  /\ outcome' = "uncaught_interrupt"
  /\ UNCHANGED <<infra_ok, entry, services, started_services, cur, i, max_retries, delay, conn,
                 response, hc_result, build_ok, spawn_ok, wait_result, main_result,
                 infraCount, launchCount, buildCount, spawnCount, terminals, healthy,
                 checks, failed_checks, slept, sleep_lens>>

(***************************************************************************)
(* Specifications                                                          *)
(***************************************************************************)
Next ==
  \/ InfraUp \/ Warmup \/ MainLaunch \/ MainStall \/ MainSuccess
  \/ Build \/ Spawn \/ Grace
  \/ WaitEnter \/ WaitSleep
  \/ HcOpen \/ HcExchange \/ HcReturn
  \/ Interrupt \/ ReportFail \/ ReportInterrupt \/ ReportError \/ InterruptInHandler

Spec == Init /\ [][Next]_vars

\* wait_for_service as the entry point
WaiterNext == WaitEnter \/ WaitSleep \/ HcOpen \/ HcExchange \/ HcReturn \/ Interrupt
WaiterSpec == WaiterInit /\ [][WaiterNext]_vars

\* check_http_health as the entry point
HealthNext == HcOpen \/ HcExchange \/ HcReturn \/ Interrupt
HealthSpec == HealthInit /\ [][HealthNext]_vars


(***************************************************************************)
(* Dependency graphs: notions the properties are stated with               *)
(***************************************************************************)
DepsOf(svcs, n) == UNION {svcs[k].depends_on : k \in {j \in 1..Len(svcs) : svcs[j].name = n}}

\* The names reachable from the set S along one or more dependency edges
RECURSIVE Closure(_, _)
Closure(svcs, S) ==
  LET T == S \cup UNION {DepsOf(svcs, n) : n \in S}
  IN IF T = S THEN S ELSE Closure(svcs, T)

Reachable(svcs, n) == Closure(svcs, DepsOf(svcs, n))

CyclicSubset(svcs) == {n \in Names(svcs) : n \in Reachable(svcs, n)}
Acyclic(svcs) == CyclicSubset(svcs) = {}
DepsListed(svcs) == \A k \in 1..Len(svcs) : svcs[k].depends_on \subseteq Names(svcs)

\* The control positions inside start_spring_boot_service and its callees
LaunchPcs == {"build", "spawn", "grace", "wait_call", "hc_call", "hc", "hc_ret", "wait_sleep"}

TwoCycle ==
  << [name |-> "A", depends_on |-> {"B"}], [name |-> "B", depends_on |-> {"A"}] >>

\* The program always takes its next step (every external command, sleep and
\* HTTP exchange comes back); interrupts may or may not arrive.
ProgramNext ==
  \/ InfraUp \/ Warmup \/ MainLaunch \/ MainStall \/ MainSuccess
  \/ Build \/ Spawn \/ Grace
  \/ WaitEnter \/ WaitSleep
  \/ HcOpen \/ HcExchange \/ HcReturn
  \/ ReportFail \/ ReportInterrupt \/ ReportError

FairSpec == Init /\ [][Next]_vars /\ WF_vars(ProgramNext)

(***************************************************************************)
(* Properties                                                              *)
(***************************************************************************)
\* The run ended otherwise than by main returning after launches that all
\* succeeded: some command failed or could not be run, or an interrupt arrived.
SomethingFailed ==
  outcome \in {"infra_failed", "launch_failed", "error", "interrupted", "uncaught_interrupt"}

\* C1: for an acyclic dependency graph whose dependencies all name listed
\* services, the run terminates; no service is ever launched twice or before
\* its dependencies are in started_services; and a run in which the
\* infrastructure command and every launch succeed ends with main returning
\* True, every service launched exactly once and started_services equal to
\* the full service set.
C1_AcyclicRunSucceeds ==
  /\ [](Acyclic(services) /\ DepsListed(services) =>
         /\ \A k \in 1..Len(services) : launchCount[k] <= 1
         /\ pc \in LaunchPcs => services[cur].depends_on \subseteq started_services
         /\ (pc = "exit" /\ ~SomethingFailed) =>
               /\ outcome = "success"
               /\ main_result = "True"
               /\ exit_code = <<0>>
               /\ started_services = Names(services)
               /\ \A k \in 1..Len(services) : launchCount[k] = 1)
  /\ (Acyclic(services) /\ DepsListed(services)) ~> (pc = "exit")

C1_Witness ==
  /\ pc = "exit"
  /\ outcome = "success"
  /\ services = BuiltinServices
  /\ started_services = Names(services)
  /\ \A k \in 1..Len(services) : launchCount[k] = 1


\* main returned (or the process has already exited after its return)
MainReturned == main_result # "unset"

\* C2 as stated: for a dependency graph containing a cycle, whenever main
\* returns (after the infrastructure command succeeded) it returns with the
\* stall failure.
C2_CycleAlwaysStalls ==
  (~Acyclic(services) /\ MainReturned /\ outcome \notin {"infra_failed", "interrupted", "uncaught_interrupt"})
     => outcome = "stall"

\* C2, amended: for a dependency graph containing a cycle, no service of the
\* cyclic subset is ever launched or added to started_services, main never
\* returns True, and when main returns in a run in which the infrastructure
\* command and every attempted launch succeeded it returns with the stall
\* failure; for A(dep B), B(dep A) no launch is ever attempted and
\* started_services stays empty.
C2_CycleStallsUnlessLaunchFails ==
  ~Acyclic(services) =>
     /\ \A k \in 1..Len(services) :
          services[k].name \in CyclicSubset(services) =>
             /\ launchCount[k] = 0
             /\ services[k].name \notin started_services
     /\ main_result # "True"
     /\ outcome # "success"
     /\ (MainReturned /\ ~SomethingFailed) => (outcome = "stall" /\ main_result = "False")
     /\ services = TwoCycle =>
          /\ started_services = {}
          /\ \A k \in 1..Len(services) : launchCount[k] = 0
          /\ MainReturned => outcome \in {"stall", "infra_failed", "interrupted", "uncaught_interrupt"}

C2_Witness ==
  /\ services = TwoCycle
  /\ pc = "exit"
  /\ outcome = "stall"
  /\ exit_code = <<1>>
  /\ started_services = {}

\* C3: whenever control is inside start_spring_boot_service (the launcher has
\* been invoked for services[cur] and has not returned), every name in that
\* service's depends_on is in started_services, for every graph and every
\* sequence of launch outcomes.
C3_LaunchOnlyAfterDeps ==
  (entry = "main" /\ pc \in LaunchPcs) =>
     /\ cur \in 1..Len(services)
     /\ services[cur].depends_on \subseteq started_services
     /\ services[cur].name \notin started_services

C3_Witness ==
  /\ pc = "build"
  /\ services[cur].depends_on # {}
  /\ ~Acyclic(services)

\* C4: when a launch fails, main returns False at once: the failed service is
\* not in started_services, the services started before stay in it, exactly
\* one launch more than the started services was made, and from then on no
\* service is launched and started_services does not change; the process
\* exits with code 1 unless an interrupt arrives first.
C4_LaunchFailureAborts ==
  /\ [](outcome = "launch_failed" =>
         /\ main_result = "False"
         /\ pc \in {"report_fail", "exit"}
         /\ pc = "exit" => exit_code = <<1>>
         /\ service_name \notin started_services
         /\ launchCount[cur] = 1
         /\ started_services = {services[k].name : k \in {j \in 1..Len(services) : launchCount[j] = 1 /\ j # cur}}
         /\ "False" \in {build_ok, spawn_ok, wait_result})
  /\ [][main_result = "False" =>
          /\ launchCount' = launchCount
          /\ buildCount' = buildCount
          /\ spawnCount' = spawnCount
          /\ started_services' = started_services
          /\ main_result' = "False"]_vars

C4_Witness ==
  /\ outcome = "launch_failed"
  /\ pc = "exit"
  /\ build_ok = "False"
  /\ service_name = "B"
  /\ services[2].depends_on = {"A"}
  /\ started_services = {"A"}

\* C5 as stated: a launch ends with failure only on a build failure or on a
\* readiness timeout.
C5_SpawnOutcomeIgnored ==
  outcome = "launch_failed" => (build_ok = "False" \/ wait_result = "False")

\* C5, amended: the exit status of the terminal command is observed through
\* run_command like that of the build: a launch ends with failure exactly on
\* a build failure, on a failure of the terminal command, or on a readiness
\* timeout; after a failed terminal command no health check is made for the
\* service, and a service is in started_services only if its terminal
\* command succeeded.
C5_SpawnFailureFailsLaunch ==
  /\ outcome = "launch_failed" =>
       \/ build_ok = "False" /\ spawn_ok = "unset" /\ wait_result = "unset"
       \/ build_ok = "True" /\ spawn_ok = "False" /\ wait_result = "unset"
       \/ build_ok = "True" /\ spawn_ok = "True" /\ wait_result = "False"
  /\ (entry = "main" /\ spawn_ok = "False") =>
       /\ pc \in {"report_fail", "report_intr", "exit"}
       /\ service_name \notin started_services
       /\ service_name \notin healthy
       /\ wait_result = "unset"
  /\ (entry = "main" /\ build_ok = "False") => pc \in {"report_fail", "report_intr", "exit"}
  /\ (entry = "main" /\ wait_result = "False") => pc \in {"report_fail", "report_intr", "exit"}
  /\ started_services \subseteq terminals
  /\ (entry = "main" /\ wait_result = "True") => (build_ok = "True" /\ spawn_ok = "True")

C5_Witness ==
  /\ outcome = "launch_failed"
  /\ build_ok = "True"
  /\ spawn_ok = "False"
  /\ pc = "exit"
  /\ exit_code = <<1>>


\* C6: wait_for_service calls check_http_health at most max_retries times; it
\* returns True right after the first check that returned True (that check is
\* the last one, and no sleep follows it), and it returns False exactly when
\* max_retries checks were made and all of them returned False.
C6_WaiterBudget ==
  /\ checks <= max_retries
  /\ failed_checks <= checks
  /\ checks <= failed_checks + 1
  /\ (hc_result = "True" /\ pc # "hc_ret") => (pc = "done" /\ wait_result = "True")
  /\ pc = "done" =>
       /\ wait_result \in {"True", "False"}
       /\ wait_result = "True" =>
            /\ hc_result = "True"
            /\ checks = failed_checks + 1
            /\ i = failed_checks
            /\ Cardinality(sleep_lens) <= 1 /\ slept = failed_checks * delay
       /\ wait_result = "False" <=> (checks = max_retries /\ failed_checks = max_retries)

C6_Witness ==
  /\ pc = "done"
  /\ wait_result = "True"
  /\ max_retries = 3
  /\ failed_checks = 2
  /\ checks = 3

\* C7: the time wait_for_service has slept is the number of failed checks so
\* far times delay, never more than max_retries * delay, and exactly
\* max_retries * delay when it returns False; every sleep lasts delay.
C7_TotalSleep ==
  /\ slept <= max_retries * delay
  /\ sleep_lens \subseteq {delay}
  /\ pc \in {"hc_call", "hc", "hc_ret"} => slept = failed_checks * delay
  /\ (pc = "done" /\ wait_result = "False") => slept = max_retries * delay
  /\ (pc = "done" /\ wait_result = "True") => slept = (checks - 1) * delay

C7_Witness ==
  /\ pc = "done"
  /\ wait_result = "False"
  /\ max_retries = 3
  /\ delay = 2
  /\ slept = 6

\* C8: the value check_http_health returns is True if and only if the exchange
\* produced a response with status 200 whose body contains the bytes U, P next
\* to each other; it is False for status 500, for a 200 body without UP, for a
\* refused connection and for a timeout.
C8_HealthyIffOkAndUp ==
  pc = "hc_ret" =>
     /\ hc_result \in {"True", "False"}
     /\ hc_result = "True" <=>
          /\ response.kind = "http"
          /\ response.status = 200
          /\ \E k \in 1..Len(response.body) :
               k < Len(response.body) /\ response.body[k] = "U" /\ response.body[k + 1] = "P"
     /\ response.status = 500 => hc_result = "False"
     /\ response.kind = "refused" => hc_result = "False"
     /\ response.kind = "timeout" => hc_result = "False"

C8_Witness ==
  /\ pc = "hc_ret"
  /\ hc_result = "True"
  /\ response.body = <<"D", "U", "P">>

\* Control is inside check_http_health
InHealthCheck == pc \in {"hc_call", "hc", "hc_ret"}

\* C9 as stated: control leaves check_http_health only by its return to
\* wait_for_service, whatever happens during the check.
C9_NeverRaises ==
  [][InHealthCheck => pc' \in {"hc_call", "hc", "hc_ret", "wait_sleep", "done"}]_vars

\* C9, amended: every failure of the exchange that is an Exception (refused
\* connection, timeout) ends in the result False and wait_for_service receives
\* a boolean from every check that returns; a KeyboardInterrupt arriving
\* during the check is not caught by it and leaves the function (after the
\* connection is closed), and nothing else does.
C9_OnlyInterruptPropagates ==
  /\ [](/\ raised \in {"none", "KeyboardInterrupt"}
        /\ (pc = "hc_ret" /\ response.kind \in ErrorKinds) => hc_result = "False"
        /\ pc = "hc_ret" => hc_result \in {"True", "False"}
        /\ pc = "wait_sleep" => hc_result = "False"
        /\ (pc = "done" /\ wait_result = "True") => hc_result = "True"
        /\ pc = "raised" => (raised = "KeyboardInterrupt" /\ conn # "open"))
  /\ [][(InHealthCheck /\ pc' \notin {"hc_call", "hc", "hc_ret", "wait_sleep", "done"}) =>
          /\ pc' = "raised"
          /\ raised' = "KeyboardInterrupt"
          /\ conn' # "open"]_vars

C9_Witness ==
  /\ pc = "raised"
  /\ raised = "KeyboardInterrupt"
  /\ interrupted_at = "hc"
  /\ conn = "closed"


\* C10 as stated: the process exits with code 0 when all services started,
\* with code 0 when a KeyboardInterrupt arrived at whatever point of the run,
\* and with code 1 on a failure.
C10_InterruptAlwaysExitsZero ==
  pc = "exit" =>
     exit_code = (IF interrupted_at # "none" THEN <<0>>
                  ELSE IF outcome = "success" THEN <<0>>
                  ELSE <<1>>)

\* C10, amended: the process exits with code 0 when all services started;
\* with code 1 when main returned False (infrastructure command failure, build
\* or terminal command failure, readiness timeout, stall) or an external
\* command could not be executed, unless an interrupt arrives before the exit;
\* with code 0 when a KeyboardInterrupt arrives while main runs or while line
\* 172 reports a failure; a KeyboardInterrupt arriving inside the handlers of
\* lines 174-179 is caught by nothing and ends the process with a non-zero
\* status. No path removes a spawned terminal: every terminal that was
\* spawned is still there at exit.
C10_ExitCodes ==
  /\ pc = "exit" =>
       /\ outcome \in {"success", "infra_failed", "launch_failed", "stall", "error",
                       "interrupted", "uncaught_interrupt"}
       /\ outcome = "success" =>
            (exit_code = <<0>> /\ main_result = "True" /\ started_services = Names(services))
       /\ outcome \in {"infra_failed", "launch_failed", "stall"} =>
            (exit_code = <<1>> /\ main_result = "False" /\ interrupted_at = "none")
       /\ outcome = "error" =>
            (exit_code = <<1>> /\ raised = "OSError" /\ interrupted_at = "none")
       /\ outcome = "interrupted" => (exit_code = <<0>> /\ interrupted_at \in TryPcs)
       /\ outcome = "uncaught_interrupt" =>
            (exit_code \in {<<1>>, <<130>>} /\ interrupted_at \in HandlerPcs)
       /\ interrupted_at \in TryPcs <=> outcome = "interrupted"
  /\ started_services \subseteq terminals
  /\ \A k \in 1..Len(services) :
       (spawnCount[k] = 1 /\ (k # cur \/ spawn_ok = "True")) => services[k].name \in terminals

C10_Witness ==
  /\ pc = "exit"
  /\ outcome = "interrupted"
  /\ exit_code = <<0>>
  /\ interrupted_at = "hc"
  /\ main_result = "unset"
  /\ Cardinality(started_services) = 1
  /\ Cardinality(terminals) = 2


\* Something was executed for an application service
AnyApplicationStep ==
  \/ \E k \in 1..Len(services) : launchCount[k] + buildCount[k] + spawnCount[k] > 0
  \/ terminals # {}
  \/ conn # "none"
  \/ checks > 0

\* C11: the docker-compose command is executed at most once per run (not at
\* all only when an interrupt arrives before it ends) and has been
\* executed exactly once, with success, before anything is done for an
\* application service (launch, build, spawn, health check); when it fails
\* main returns False with started_services empty and no service launched;
\* when it succeeds main goes on to the warm-up sleep and the scan without
\* any health check in between: the first connection is opened only inside
\* the launch of a service, after its terminal was spawned.
C11_InfraFirstOnceUnchecked ==
  /\ infraCount <= 1
  /\ (pc \notin {"main_infra", "report_intr", "exit"}) => infraCount = 1
  /\ (MainReturned \/ raised = "OSError") => infraCount = 1
  /\ infra_ok # "unset" => infraCount = 1
  /\ AnyApplicationStep => (infraCount = 1 /\ infra_ok = "True")
  /\ pc \in {"main_warmup", "main_loop"} \cup LaunchPcs => infra_ok = "True"
  /\ infra_ok = "False" =>
       /\ main_result = "False"
       /\ pc \in {"report_fail", "report_intr", "exit"}
       /\ started_services = {}
       /\ ~AnyApplicationStep
       /\ (pc = "exit" /\ interrupted_at = "none") => (outcome = "infra_failed" /\ exit_code = <<1>>)
  /\ pc = "main_warmup" => (checks = 0 /\ conn = "none" /\ healthy = {})
  /\ pc \in {"hc_call", "hc", "hc_ret"} =>
       (cur \in 1..Len(services) /\ spawn_ok = "True" /\ services[cur].name \in terminals)
  /\ healthy \subseteq terminals

C11_Witness ==
  /\ pc = "exit"
  /\ infra_ok = "False"
  /\ infraCount = 1
  /\ outcome = "infra_failed"
  /\ services = BuiltinServices
  /\ started_services = {}


\* C12: within one launch the steps come in the order build, terminal
\* command, grace sleep, readiness wait: the terminal command runs only after
\* a successful build, the grace sleep only after a successful terminal
\* command, wait_for_service is entered only from the grace sleep and a
\* health check is made only inside wait_for_service; after a failed build
\* there is no terminal command and no health check for the service; and
\* when wait_for_service returns, main treats its value as the value of the
\* launch.
C12_LaunchStepOrder ==
  /\ [](entry = "main" =>
          /\ pc = "build" =>
               /\ buildCount[cur] = 0 /\ spawnCount[cur] = 0
               /\ build_ok = "unset" /\ spawn_ok = "unset" /\ wait_result = "unset"
          /\ pc = "spawn" =>
               /\ build_ok = "True" /\ buildCount[cur] = 1
               /\ spawn_ok = "unset" /\ spawnCount[cur] = 0
               /\ service_name \notin terminals
          /\ pc \in {"grace", "wait_call", "hc_call", "hc", "hc_ret", "wait_sleep"} =>
               /\ build_ok = "True" /\ spawn_ok = "True"
               /\ buildCount[cur] = 1 /\ spawnCount[cur] = 1
               /\ wait_result = "unset"
               /\ service_name \in terminals
               /\ service_name \notin healthy
          /\ build_ok = "False" =>
               /\ spawnCount[cur] = 0 /\ spawn_ok = "unset" /\ wait_result = "unset"
               /\ service_name \notin terminals \cup healthy \cup started_services
               /\ pc \in {"report_fail", "report_intr", "exit"})
  /\ [][entry = "main" =>
          /\ pc' = "build" => pc \in {"build", "main_loop"}
          /\ pc' = "spawn" => pc \in {"spawn", "build"}
          /\ pc' = "grace" => pc \in {"grace", "spawn"}
          /\ pc' = "wait_call" => pc \in {"wait_call", "grace"}
          /\ pc' = "hc_call" => pc \in {"hc_call", "wait_call", "wait_sleep"}
          /\ (wait_result = "unset" /\ wait_result' = "True") =>
               /\ started_services' = started_services \cup {service_name}
               /\ pc' = "main_loop"
          /\ (wait_result = "unset" /\ wait_result' = "False") =>
               /\ started_services' = started_services
               /\ main_result' = "False"
               /\ outcome' = "launch_failed"]_vars

C12_Witness ==
  /\ entry = "main"
  /\ pc = "hc"
  /\ cur = 2
  /\ checks = 2
  /\ build_ok = "True"
  /\ spawn_ok = "True"


\* Service k may be launched: it is not started and its dependencies are
Eligible(k) ==
  /\ services[k].name \notin started_services
  /\ services[k].depends_on \subseteq started_services

AfterA ==
  << [name |-> "A", depends_on |-> {}],
     [name |-> "B", depends_on |-> {"A"}],
     [name |-> "C", depends_on |-> {"A"}] >>

\* C13: the service being launched is the first one in list order that is
\* not in started_services and whose dependencies all are, whatever was
\* launched before (the scan restarts at the top); so for A, B(dep A),
\* C(dep A) neither B nor C is launched before A is started, and for the
\* built-in list a service is launched only when all services listed before
\* it are started: the launch order is config-server, eureka-server,
\* customer-service, notification-service, gateway-server.
C13_FirstEligibleInListOrder ==
  /\ (entry = "main" /\ pc \in LaunchPcs) =>
       /\ cur \in 1..Len(services)
       /\ Eligible(cur)
       /\ \A j \in 1..(cur - 1) : ~Eligible(j)
  /\ services = AfterA =>
       /\ (launchCount[2] > 0 \/ launchCount[3] > 0) => "A" \in started_services
       /\ launchCount[3] > 0 => "B" \in started_services
  /\ services = BuiltinServices =>
       /\ \A k \in 1..Len(services) : \A j \in 1..(k - 1) :
            launchCount[k] > 0 => (launchCount[j] = 1 /\ services[j].name \in started_services)
       /\ pc \in LaunchPcs =>
            started_services = {services[j].name : j \in 1..(cur - 1)}

C13_Witness ==
  /\ services = BuiltinServices
  /\ pc = "build"
  /\ service_name = "gateway-server"
  /\ started_services =
       {"config-server", "eureka-server", "customer-service", "notification-service"}


\* C14: started_services is empty when the run starts and until the loop is
\* entered; no step removes a name from it; a step adds at most one name, and
\* only the name of the service being launched, at the return of a health
\* check that gave True, after its build succeeded and its terminal command
\* was run; so every name in the set belongs to a service that was built
\* once, spawned once and found healthy.
C14_StartedSetGrows ==
  /\ started_services = {}
  /\ [](/\ pc \in {"main_infra", "main_warmup"} => started_services = {}
        /\ \A k \in 1..Len(services) :
             services[k].name \in started_services =>
               /\ buildCount[k] = 1
               /\ spawnCount[k] = 1
               /\ services[k].name \in terminals
               /\ services[k].name \in healthy
        /\ started_services \subseteq Names(services))
  /\ [][/\ started_services \subseteq started_services'
        /\ Cardinality(started_services' \ started_services) <= 1
        /\ started_services' # started_services =>
             /\ pc = "hc_ret"
             /\ hc_result = "True"
             /\ build_ok = "True"
             /\ spawn_ok = "True"
             /\ service_name \in terminals
             /\ service_name \notin started_services
             /\ started_services' = started_services \cup {service_name}]_vars

C14_Witness ==
  /\ pc = "report_fail"
  /\ outcome = "launch_failed"
  /\ Cardinality(started_services) = 2
  /\ Len(services) = 3


\* C15: the infrastructure command runs at most once in a run, and the build
\* command and the terminal command of each service run at most once, also
\* once one of them has failed: from then on no command runs at all. Only
\* the health check of a service is repeated.
C15_NoRetryButPolling ==
  /\ [](/\ infraCount <= 1
        /\ \A k \in 1..Len(services) :
             /\ launchCount[k] <= 1
             /\ buildCount[k] <= 1
             /\ spawnCount[k] <= 1
             /\ spawnCount[k] <= buildCount[k]
             /\ buildCount[k] <= launchCount[k])
  /\ [][("False" \in {infra_ok, build_ok, spawn_ok, wait_result} \/ main_result = "False") =>
          UNCHANGED <<infraCount, launchCount, buildCount, spawnCount>>]_vars

C15_Witness ==
  /\ pc = "report_fail"
  /\ wait_result = "False"
  /\ checks > 1
  /\ buildCount[cur] = 1
  /\ spawnCount[cur] = 1
  /\ Cardinality(started_services) = 1


\* C16: a connection is open only while check_http_health is running; when
\* the function has returned (with True, with False after a response that
\* does not match, or with False after an error of the exchange) or was left
\* by a KeyboardInterrupt after the connection object was created, that
\* connection is closed.
C16_ConnectionClosedOnReturn ==
  /\ conn = "open" <=> pc \in {"hc", "hc_ret"}
  /\ (hc_result # "unset" /\ pc # "hc_ret") => conn = "closed"
  /\ (entry = "check_http_health" /\ pc = "done") => conn = "closed"
  /\ (interrupted_at \in {"hc", "hc_ret"} /\ pc # "hc_call") => conn = "closed"

C16_Witness ==
  /\ entry = "check_http_health"
  /\ pc = "done"
  /\ hc_result = "False"
  /\ conn = "closed"


RECURSIVE Total(_, _)
\* f[1] + ... + f[n]
Total(f, n) == IF n = 0 THEN 0 ELSE f[n] + Total(f, n - 1)

\* The calls of start_spring_boot_service so far, i.e. the scans of the
\* service list that ended in a launch
LaunchAttempts == Total(launchCount, Len(services))

\* C17: once the scheduling loop is entered it is left, as long as every
\* command, sleep and health check comes back: main returns (or an exception
\* or interrupt ends it). When main returns from the loop it returns with
\* success, with a launch failure or with a stall. There are never more
\* launch attempts (scans that end in a launch) than services, every
\* successful one adds a name to started_services, a failed one or a stalled
\* scan ends the loop, and after either nothing is scanned or launched again.
C17_SchedulerTerminates ==
  /\ [](/\ LaunchAttempts <= Len(services)
        /\ \A k \in 1..Len(services) : launchCount[k] <= 1
        /\ pc = "main_loop" => LaunchAttempts = Cardinality(started_services)
        /\ pc \in LaunchPcs => LaunchAttempts = Cardinality(started_services) + 1
        /\ (MainReturned /\ infra_ok = "True" /\ raised = "none") =>
             /\ outcome \in {"success", "launch_failed", "stall"}
             /\ pc \in {"report_fail", "exit"}
        /\ outcome \in {"success", "launch_failed", "stall"} =>
             /\ MainReturned
             /\ pc \in {"report_fail", "exit"}
             /\ LaunchAttempts <= Cardinality(started_services) + 1)
  /\ [][(outcome \in {"launch_failed", "stall", "success"}) =>
          UNCHANGED <<launchCount, started_services, cur>>]_vars
  /\ (pc = "main_loop") ~> (MainReturned \/ raised # "none")

C17_Witness ==
  /\ pc = "exit"
  /\ outcome = "stall"
  /\ raised = "none"
  /\ Len(services) = 3
  /\ LaunchAttempts = 2


\* C18: main returns with the stall failure only when started_services is
\* not the full service set and no service outside it has all its
\* dependencies in it; that never happens for an acyclic graph whose
\* dependencies all name listed services; and when a launch has failed main
\* returns with the launch failure, not with the stall failure.
C18_StallOnlyWhenBlocked ==
  /\ outcome = "stall" =>
       /\ main_result = "False"
       /\ Cardinality(started_services) < Len(services)
       /\ started_services # Names(services)
       /\ \A k \in 1..Len(services) : ~Eligible(k)
       /\ "False" \notin {build_ok, spawn_ok, wait_result}
       /\ ~(Acyclic(services) /\ DepsListed(services))
  /\ ("False" \in {build_ok, spawn_ok, wait_result} /\ raised = "none") =>
       /\ outcome = "launch_failed"
       /\ main_result = "False"
       /\ pc \in {"report_fail", "exit"}
  /\ (pc = "exit" /\ exit_code = <<1>> /\ raised = "none" /\ infra_ok = "True"
        /\ "False" \notin {build_ok, spawn_ok, wait_result}) => outcome = "stall"

C18_Witness ==
  /\ pc = "exit"
  /\ outcome = "stall"
  /\ Len(services) = 3
  /\ Cardinality(started_services) = 1
  /\ \E k \in 1..Len(services) : services[k].depends_on = {MissingName}


\* The names that can never be started: those on a dependency cycle and those
\* that a service depends on but no service bears
Unstartable(svcs) ==
  CyclicSubset(svcs) \cup (UNION {svcs[k].depends_on : k \in 1..Len(svcs)} \ Names(svcs))

\* The services none of whose direct or transitive dependencies is unstartable
Launchable(svcs) ==
  {n \in Names(svcs) : Reachable(svcs, n) \cap Unstartable(svcs) = {}}

\* C19: while the loop runs, started_services holds launchable services
\* only; and when main returns with the stall failure (every launch made
\* before it has succeeded), started_services is exactly the set of launchable
\* services: every service with no cyclic or missing service among its
\* direct and transitive dependencies is in it, and no service that depends
\* directly or transitively on a cyclic or missing one is.
C19_StallLeavesLaunchableSet ==
  /\ started_services \subseteq Launchable(services)
  /\ pc \in LaunchPcs => service_name \in Launchable(services)
  /\ outcome = "stall" =>
       /\ started_services = Launchable(services)
       /\ started_services # Names(services)
       /\ \A k \in 1..Len(services) :
            launchCount[k] = (IF services[k].name \in Launchable(services) THEN 1 ELSE 0)

C19_Witness ==
  /\ pc = "exit"
  /\ outcome = "stall"
  /\ Cardinality(started_services) = 1
  /\ CyclicSubset(services) # {}
  /\ \E n \in Names(services) :
       /\ n \notin CyclicSubset(services)
       /\ n \notin started_services
       /\ Reachable(services, n) \cap CyclicSubset(services) # {}

=============================================================================
